---- MODULE Spec2Model ----
(***************************************************************************)
(* Model of unitree_a1_neural_control::UnitreeNeuralControl                *)
(* (src/src/unitree_a1_neural_control.cpp and its header).                 *)
(*                                                                         *)
(* Number representation.  Every float of the program is an integer here.  *)
(* Joint angles, nominal offsets and policy outputs are integer multiples  *)
(* of one quantum (the code only adds, subtracts and scales them, so the   *)
(* quantum is free: with quantum 0.0125 the value 8 is 0.1 and 4 is 0.05). *)
(* Contact flags and tick counters are the floats 0.0, 1.0, 2.0, ... .     *)
(* Float rounding is not modelled, except that += 1.0f stops changing a    *)
(* float at 2^24.                                                          *)
(*                                                                         *)
(* The policy (module_.forward) is opaque: its output is any vector of     *)
(* PolicyOutputs.  Two places of modelForward have undefined behaviour:    *)
(*  - an output shorter than 12 makes actionToMsg read action[i] behind    *)
(*    the vector: the read yields some value, or the process dies;         *)
(*  - an output longer than 12 makes std::copy write behind last_action_,  *)
(*    into the members declared after it (foot_contact_,                   *)
(*    cycles_since_last_contact_, last_tick_, in this order).              *)
(*                                                                         *)
(* Spec drives the controller through its public interface (modelForward,  *)
(* setFootContactThreshold).  updateCyclesSinceLastContact(uint32_t) has   *)
(* no caller in the sources, so SpecTracker drives the tracker methods     *)
(* one call at a time.                                                     *)
(***************************************************************************)
EXTENDS Integers, Sequences, FiniteSets, TLC

VARIABLES
    foot_contact_threshold_,    \* int16_t
    nominal_,                   \* std::array<float, 12>, index 0..11
    last_action_,               \* std::array<float, 12>
    foot_contact_,              \* std::array<float, 4>, index 0..3
    cycles_since_last_contact_, \* std::array<float, 4>
    last_tick_,                 \* std::array<float, 4>
    cmd,                        \* LowCmd written by modelForward, NoCmd before
    tensor,                     \* Float32MultiArray.data written by modelForward
    status,                     \* "running", or "aborted" after a fatal read
    foot_in,                    \* foot_force of the latest sensor message
    policy_out,                 \* what module_.forward returned in the latest call
    contact_log,                \* foot_contact_ as seen by each counter update
    tick_log                    \* tick argument of each timed counter update

vars == <<foot_contact_threshold_, nominal_, last_action_, foot_contact_,
          cycles_since_last_contact_, last_tick_, cmd, tensor, status,
          foot_in, policy_out, contact_log, tick_log>>

----------------------------------------------------------------------------
(* Constants of the header *)
FL == 0
FR == 1
RL == 2
RR == 3
PMSM_SERVO_MODE == 10
KpHalves == 40
KdHalves == 1
ScaledFactorDen == 4
NumJoints == 12
NumLegs == 4
Int16Min == -32768
Int16Max == 32767
FloatExactMax == 16777216

(* Bounds of the model: ticks of modelForward, timed counter updates *)
MaxTicks == 3
MaxTimedCalls == 3

JointIdx == 0 .. (NumJoints - 1)
LegIdx == 0 .. (NumLegs - 1)
ConstArr(v) == [i \in JointIdx |-> v]
RampArr(a, b) == [i \in JointIdx |-> a + b * i]
ZeroLegs == [i \in LegIdx |-> 0]
NoCmd == [valid |-> FALSE]

----------------------------------------------------------------------------
(* Messages *)
MotorState(q, dq) ==
    LET leg(o) == [hip   |-> [q |-> q[o],     dq |-> dq[o]],
                   thigh |-> [q |-> q[o + 1], dq |-> dq[o + 1]],
                   calf  |-> [q |-> q[o + 2], dq |-> dq[o + 2]]]
    IN [front_right |-> leg(0), front_left |-> leg(3),
        rear_right  |-> leg(6), rear_left  |-> leg(9)]

FootForceState(fr, fl, rr, rl) ==
    [front_right |-> fr, front_left |-> fl, rear_right |-> rr, rear_left |-> rl]

Quaternion(w, x, y, z) == [w |-> w, x |-> x, y |-> y, z |-> z]

----------------------------------------------------------------------------
(* Inputs *)
Thresholds == {-1, 50}

LowState(m, o, f) == [motor_state |-> m, imu |-> [orientation |-> o], foot_force |-> f]

LowStates ==
    { LowState(MotorState(ConstArr(8), ConstArr(0)), Quaternion(1, 0, 0, 0),
               FootForceState(60, 40, 60, 40)),
      LowState(MotorState(RampArr(1, 1), RampArr(20, 1)), Quaternion(0, 1, 0, 0),
               FootForceState(40, 60, 50, -2)),
      LowState(MotorState(ConstArr(8), ConstArr(0)), Quaternion(1, 0, 0, 0),
               FootForceState(-2, -2, -2, -2)) }

TrackerForces ==
    { FootForceState(60, 40, 60, 40),
      FootForceState(Int16Max, 50, Int16Min, -2),
      FootForceState(49, Int16Min, 0, Int16Max) }

TrackerThresholds == Thresholds \cup { Int16Min }

Nominals == { ConstArr(0), RampArr(1, 1) }

Goals == { [twist |-> [linear |-> [x |-> 1, y |-> 0], angular |-> [z |-> -1]]] }

\* one element short of the 12 joints, exact, one element more
ActionLens == { NumJoints - 1, NumJoints, NumJoints + 1 }

PolicyOutputs ==
    { [i \in 1 .. n |-> 4] : n \in ActionLens } \cup { [i \in 1 .. NumJoints |-> 4 * i] }

GarbageVals == {0, 99}

Ticks == { 1000, 3000 }

----------------------------------------------------------------------------
(* State tracker *)

\* cycles_since_last_contact_[i] += 1.0f on a float
FloatInc(x) == IF x < FloatExactMax THEN x + 1 ELSE x

\* variant: equality counts as no contact
convertFootForce_strict(force, threshold) == IF force <= threshold THEN 0 ELSE 1

\* variant: the threshold is compared as a uint16_t
convertFootForce_unsignedThreshold(force, threshold) ==
    IF force < (threshold % 65536) THEN 0 ELSE 1

convertFootForce(force, threshold) == IF force < threshold THEN 0 ELSE 1

\* the message field whose reading is stored in foot_contact_[i]
SlotForce(foot, i) ==
    IF i = FL THEN foot.front_left
    ELSE IF i = FR THEN foot.front_right
    ELSE IF i = RL THEN foot.rear_right
    ELSE foot.rear_left

convertFootForceToContact(foot) ==
    [i \in LegIdx |-> convertFootForce(SlotForce(foot, i), foot_contact_threshold_)]

\* variant: the counter is not reset on contact
updateCyclesSinceLastContact_noReset(contact, cycles) ==
    [i \in LegIdx |-> FloatInc(cycles[i])]

updateCyclesSinceLastContact(contact, cycles) ==
    [i \in LegIdx |-> IF contact[i] = 1 THEN 0 ELSE FloatInc(cycles[i])]

\* static_cast<float>(tick) / 1000.0f
TickMs(tick) == tick \div 1000

\* variant: the timestamp is refreshed on every call
updateCyclesSinceLastContactTick_alwaysStamp(tick, contact, cycles, lastTick) ==
    LET tick_ms == TickMs(tick)
    IN [last_tick |-> [i \in LegIdx |-> tick_ms],
        cycles    |-> [i \in LegIdx |->
                         IF contact[i] = 1 THEN 0 ELSE tick_ms - lastTick[i]]]

updateCyclesSinceLastContactTick(tick, contact, cycles, lastTick) ==
    LET tick_ms == TickMs(tick)
    IN [last_tick |-> [i \in LegIdx |->
                         IF contact[i] = 1 THEN tick_ms ELSE lastTick[i]],
        cycles    |-> [i \in LegIdx |->
                         IF contact[i] = 1 THEN 0 ELSE tick_ms - lastTick[i]]]

----------------------------------------------------------------------------
(* Feature / command adapter *)

pushJointPositions(leg) ==
    [i \in JointIdx |->
       (CASE i = 0  -> leg.front_right.hip.q
          [] i = 1  -> leg.front_right.thigh.q
          [] i = 2  -> leg.front_right.calf.q
          [] i = 3  -> leg.front_left.hip.q
          [] i = 4  -> leg.front_left.thigh.q
          [] i = 5  -> leg.front_left.calf.q
          [] i = 6  -> leg.rear_right.hip.q
          [] i = 7  -> leg.rear_right.thigh.q
          [] i = 8  -> leg.rear_right.calf.q
          [] i = 9  -> leg.rear_left.hip.q
          [] i = 10 -> leg.rear_left.thigh.q
          [] i = 11 -> leg.rear_left.calf.q) - nominal_[i]]

\* variant: the calf velocity is not pushed
pushJointVelocities_dropCalf(t, joint) ==
    Append(Append(t, joint.hip.dq), joint.thigh.dq)

pushJointVelocities(t, joint) ==
    Append(Append(Append(t, joint.hip.dq), joint.thigh.dq), joint.calf.dq)

Cross(a, b) == << a[2] * b[3] - a[3] * b[2],
                  a[3] * b[1] - a[1] * b[3],
                  a[1] * b[2] - a[2] * b[1] >>

\* Eigen: Quaternionf * Vector3f (v + 2w(u x v) + 2 u x (u x v)), then
\* Vector3f::normalize().  The orientations of LowStates rotate gravity onto an
\* axis, so the norm is a whole number.
convertToGravityVector(orientation) ==
    LET u  == << orientation.x, orientation.y, orientation.z >>
        g  == << 0, 0, -1 >>
        c  == Cross(u, g)
        uv == << 2 * c[1], 2 * c[2], 2 * c[3] >>
        d  == Cross(u, uv)
        s  == [k \in 1 .. 3 |-> g[k] + orientation.w * uv[k] + d[k]]
        z  == s[1] * s[1] + s[2] * s[2] + s[3] * s[3]
        n  == CHOOSE r \in 0 .. z : r * r = z
    IN IF z > 0 THEN << s[1] \div n, s[2] \div n, s[3] \div n >>
       ELSE << s[1], s[2], s[3] >>

ArrSeq(a, n) == [k \in 1 .. n |-> a[k - 1]]

\* variant: the counters are advanced from the flags of the tick before
msgToTensor_staleContact(goal, msg) ==
    LET position == pushJointPositions(msg.motor_state)
        t1 == ArrSeq(position, NumJoints)
        t2 == t1 \o << msg.imu.orientation.x, msg.imu.orientation.y,
                       msg.imu.orientation.z >>
        t3 == pushJointVelocities(
                pushJointVelocities(
                  pushJointVelocities(
                    pushJointVelocities(t2, msg.motor_state.front_right),
                    msg.motor_state.front_left),
                  msg.motor_state.rear_right),
                msg.motor_state.rear_left)
        t4 == t3 \o << goal.twist.linear.x, goal.twist.linear.y,
                       goal.twist.angular.z >>
        contact == convertFootForceToContact(msg.foot_force)
        t5 == t4 \o ArrSeq(contact, NumLegs)
        t6 == t5 \o convertToGravityVector(msg.imu.orientation)
        t7 == t6 \o ArrSeq(last_action_, NumJoints)
        cycles == updateCyclesSinceLastContact(foot_contact_, cycles_since_last_contact_)
        t8 == t7 \o ArrSeq(cycles, NumLegs)
    IN [tensor |-> t8, foot_contact |-> contact, cycles |-> cycles]

\* Returns the vector together with the tracker fields the call rewrites.
msgToTensor(goal, msg) ==
    LET position == pushJointPositions(msg.motor_state)
        t1 == ArrSeq(position, NumJoints)
        t2 == t1 \o << msg.imu.orientation.x, msg.imu.orientation.y,
                       msg.imu.orientation.z >>
        t3 == pushJointVelocities(
                pushJointVelocities(
                  pushJointVelocities(
                    pushJointVelocities(t2, msg.motor_state.front_right),
                    msg.motor_state.front_left),
                  msg.motor_state.rear_right),
                msg.motor_state.rear_left)
        t4 == t3 \o << goal.twist.linear.x, goal.twist.linear.y,
                       goal.twist.angular.z >>
        contact == convertFootForceToContact(msg.foot_force)
        t5 == t4 \o ArrSeq(contact, NumLegs)
        t6 == t5 \o convertToGravityVector(msg.imu.orientation)
        t7 == t6 \o ArrSeq(last_action_, NumJoints)
        cycles == updateCyclesSinceLastContact(contact, cycles_since_last_contact_)
        t8 == t7 \o ArrSeq(cycles, NumLegs)
    IN [tensor |-> t8, foot_contact |-> contact, cycles |-> cycles]

initControlParams(c) ==
    [c EXCEPT !.common = [mode |-> PMSM_SERVO_MODE, kp |-> KpHalves, kd |-> KdHalves]]

\* action[i] of a std::vector: the element, or whatever lies behind the buffer
At(action, i, junk) == IF i < Len(action) THEN action[i + 1] ELSE junk[i]

actionToMsg(action, junk) ==
    initControlParams(
      [valid  |-> TRUE,
       q      |-> [i \in JointIdx |-> nominal_[i] + At(action, i, junk)],
       common |-> [mode |-> 0, kp |-> 0, kd |-> 0]])

\* std::copy(action_vec.begin(), action_vec.end(), last_action_.begin()) as seen
\* by the member that starts offset floats behind last_action_[0]
CopiedInto(arr, offset, action_vec) ==
    [i \in DOMAIN arr |->
       IF offset + i < Len(action_vec) THEN action_vec[offset + i + 1] ELSE arr[i]]

\* the std::transform of modelForward
Blend(state, out) ==
    [i \in 1 .. Len(out) |-> state[i] + (out[i] \div ScaledFactorDen)]

----------------------------------------------------------------------------
Init ==
    /\ foot_contact_threshold_ \in Thresholds
    /\ nominal_ \in Nominals
    /\ last_action_ = ConstArr(0)
    /\ last_tick_ = ZeroLegs
    /\ foot_contact_ = ZeroLegs
    /\ cycles_since_last_contact_ = ZeroLegs
    /\ cmd = NoCmd
    /\ tensor = << >>
    /\ status = "running"
    /\ foot_in = FootForceState(0, 0, 0, 0)
    /\ policy_out = << >>
    /\ contact_log = << >>
    /\ tick_log = << >>

setFootContactThreshold(threshold) ==
    /\ status = "running"
    /\ foot_contact_threshold_' = threshold
    /\ UNCHANGED <<nominal_, last_action_, foot_contact_, cycles_since_last_contact_,
                   last_tick_, cmd, tensor, status, foot_in, policy_out,
                   contact_log, tick_log>>

modelForward(goal, msg, out, junk, fatal) ==
    /\ status = "running"
    /\ Len(contact_log) < MaxTicks
    /\ LET r == msgToTensor(goal, msg)
           state == r.tensor
           action_vec == Blend(state, out)
       IN /\ last_action_' = CopiedInto(last_action_, 0, action_vec)
          /\ foot_contact_' = CopiedInto(r.foot_contact, 12, action_vec)
          /\ cycles_since_last_contact_' = CopiedInto(r.cycles, 16, action_vec)
          /\ last_tick_' = CopiedInto(last_tick_, 20, action_vec)
          /\ tensor' = state
          /\ IF fatal
               THEN /\ status' = "aborted"
                    /\ cmd' = cmd
               ELSE /\ status' = status
                    /\ cmd' = actionToMsg(action_vec, junk)
          /\ contact_log' = Append(contact_log, r.foot_contact)
    /\ foot_in' = msg.foot_force
    /\ policy_out' = out
    /\ UNCHANGED <<foot_contact_threshold_, nominal_, tick_log>>

Tick ==
    \E goal \in Goals, msg \in LowStates, out \in PolicyOutputs :
      \/ \E junk \in [Len(out) .. (NumJoints - 1) -> GarbageVals] :
            modelForward(goal, msg, out, junk, FALSE)
      \/ /\ Len(out) < NumJoints
         /\ modelForward(goal, msg, out, << >>, TRUE)

Configure == \E threshold \in Thresholds : setFootContactThreshold(threshold)

Next == Tick \/ Configure

Spec == Init /\ [][Next]_vars

----------------------------------------------------------------------------
(* The state tracker driven method by method, with the timed counter update *)

convertFootForceToContactCall(foot) ==
    /\ status = "running"
    /\ foot_contact_' = convertFootForceToContact(foot)
    /\ foot_in' = foot
    /\ UNCHANGED <<foot_contact_threshold_, nominal_, last_action_,
                   cycles_since_last_contact_, last_tick_, cmd, tensor, status,
                   policy_out, contact_log, tick_log>>

updateCyclesSinceLastContactTickCall(tick) ==
    /\ status = "running"
    /\ Len(tick_log) < MaxTimedCalls
    /\ LET r == updateCyclesSinceLastContactTick(
                  tick, foot_contact_, cycles_since_last_contact_, last_tick_)
       IN /\ last_tick_' = r.last_tick
          /\ cycles_since_last_contact_' = r.cycles
    /\ contact_log' = Append(contact_log, foot_contact_)
    /\ tick_log' = Append(tick_log, tick)
    /\ UNCHANGED <<foot_contact_threshold_, nominal_, last_action_, foot_contact_,
                   cmd, tensor, status, foot_in, policy_out>>

Classify == \E foot \in TrackerForces : convertFootForceToContactCall(foot)

AdvanceByTime == \E tick \in Ticks : updateCyclesSinceLastContactTickCall(tick)

ConfigureTracker ==
    \E threshold \in TrackerThresholds : setFootContactThreshold(threshold)

NextTracker == Classify \/ AdvanceByTime \/ ConfigureTracker

SpecTracker == Init /\ [][NextTracker]_vars

----------------------------------------------------------------------------
(* Segments of the feature vector, in the order msgToTensor appends them:  *)
(* 12 positions, 3 orientation, 12 velocities, 3 goal, 4 contact,          *)
(* 3 gravity, 12 last action, 4 cycles.                                    *)
ContactSeg(t) == SubSeq(t, 31, 34)
LastActionSeg(t) == SubSeq(t, 38, 49)
CyclesSeg(t) == SubSeq(t, 50, 53)

Emitted == tensor # << >>
NumTicks == Len(contact_log)
\* a step of modelForward (Spec) or of the timed counter update (SpecTracker)
LoggedStep == contact_log' # contact_log
\* a step of convertFootForceToContact in SpecTracker
ClassifyStep ==
    /\ foot_contact_threshold_' = foot_contact_threshold_
    /\ contact_log' = contact_log

\* C1 (as stated): every feature vector modelForward emits has exactly 57 values.
C1_Length57 == Emitted => Len(tensor) = 57

\* C1 (amended): every feature vector modelForward emits, after any number of
\* earlier ticks, has exactly 53 values (12 + 3 + 12 + 3 + 4 + 3 + 12 + 4).
C1_Length53 == Emitted => Len(tensor) = 53

C1_Witness == NumTicks >= 2 /\ Len(tensor) = 53

\* C2: in every tick the four contact flags (as classified, and as appended to
\* the feature vector) are in the order front-right, front-left, rear-right,
\* rear-left: slot k is 1 exactly when the k-th leg's force is >= threshold.
C2_ContactLegOrder ==
    [][LoggedStep =>
         LET f == foot_in'
             flag(force) == IF force >= foot_contact_threshold_ THEN 1 ELSE 0
             expected == << flag(f.front_right), flag(f.front_left),
                            flag(f.rear_right), flag(f.rear_left) >>
         IN /\ ContactSeg(tensor') = expected
            /\ ArrSeq(contact_log'[Len(contact_log')], NumLegs) = expected]_vars

\* C3: the last-action segment of the first feature vector is all zero, and the
\* last-action segment of every later feature vector equals the raw policy
\* output (first 12 values) of the tick before.
C3_LastActionIsRaw ==
    [][LoggedStep =>
         /\ (NumTicks = 0 => LastActionSeg(tensor') = ArrSeq(ConstArr(0), NumJoints))
         /\ (NumTicks >= 1 /\ Len(policy_out) >= NumJoints =>
               LastActionSeg(tensor') = SubSeq(policy_out, 1, NumJoints))]_vars

\* C4: each of the 12 joint targets of the emitted command equals the nominal
\* offset of that joint plus the raw policy output for that joint.
C4_TargetIsNominalPlusRaw ==
    (status = "running" /\ cmd.valid /\ Len(policy_out) >= NumJoints) =>
        \A i \in JointIdx : cmd.q[i] = nominal_[i] + policy_out[i + 1]

\* C5: convertFootForceToContact sets every flag to 0 when the force it reads is
\* below the threshold and to 1 when it is at or above it, whatever the flag was.
C5_ContactThreshold ==
    [][ClassifyStep =>
         \A i \in LegIdx :
            LET force == SlotForce(foot_in', i)
            IN /\ (force < foot_contact_threshold_ => foot_contact_'[i] = 0)
               /\ (force >= foot_contact_threshold_ => foot_contact_'[i] = 1)]_vars

C5_Witness ==
    /\ \E i \in LegIdx : /\ SlotForce(foot_in, i) = foot_contact_threshold_
                         /\ foot_contact_[i] = 1
    /\ \E j \in LegIdx : /\ SlotForce(foot_in, j) < foot_contact_threshold_
                         /\ foot_contact_[j] = 0
    /\ \E k \in LegIdx : /\ SlotForce(foot_in, k) > foot_contact_threshold_
                         /\ foot_contact_[k] = 1

\* C6: from a fresh controller, a leg in contact on every tick has counter 0
\* after every tick, and a leg never in contact over N ticks has counter N.
C6_SimpleCounter ==
    \A i \in LegIdx :
       /\ (NumTicks >= 1 /\ \A k \in 1 .. NumTicks : contact_log[k][i] = 1)
             => cycles_since_last_contact_[i] = 0
       /\ (\A k \in 1 .. NumTicks : contact_log[k][i] # 1)
             => cycles_since_last_contact_[i] = NumTicks

C6_Witness ==
    /\ NumTicks >= 3
    /\ \E i \in LegIdx : /\ \A k \in 1 .. NumTicks : contact_log[k][i] = 1
                         /\ cycles_since_last_contact_[i] = 0
    /\ \E j \in LegIdx : /\ \A k \in 1 .. NumTicks : contact_log[k][j] # 1
                         /\ cycles_since_last_contact_[j] = NumTicks

\* C7 (as stated): with a threshold below zero every force reading is
\* classified as contact, so all four flags are 1.
C7_NegativeThresholdAllContact ==
    [][(ClassifyStep /\ foot_contact_threshold_ < 0) =>
         \A i \in LegIdx : foot_contact_'[i] = 1]_vars

\* C7 (amended): with a threshold below zero every non-negative force reading
\* is classified as contact.
C7_NegativeThresholdNonNegativeForce ==
    [][(ClassifyStep /\ foot_contact_threshold_ < 0) =>
         \A i \in LegIdx : SlotForce(foot_in', i) >= 0 => foot_contact_'[i] = 1]_vars

C7_Witness ==
    /\ foot_contact_threshold_ < 0
    /\ \E i \in LegIdx : SlotForce(foot_in, i) > 0 /\ foot_contact_[i] = 1
    /\ \E j \in LegIdx : SlotForce(foot_in, j) = 0 /\ foot_contact_[j] = 1

\* the latest timed update, at or before call n, that saw leg i in contact
\* (0 when there is none)
RECURSIVE MostRecentContactCall(_, _)
MostRecentContactCall(i, n) ==
    IF n = 0 THEN 0
    ELSE IF contact_log[n][i] = 1 THEN n
    ELSE MostRecentContactCall(i, n - 1)

\* C8: after a timed update, a leg that was in contact has lastContactTimestamp
\* equal to that call's tick time (tick / 1000) and duration 0; a leg that was
\* not has duration = tick time - tick time of its most recent contact call,
\* which is its lastContactTimestamp (0 when it never had contact).
C8_TimedCounter ==
    LET n == Len(tick_log)
    IN n >= 1 =>
         \A i \in LegIdx :
            LET now  == tick_log[n] \div 1000
                k    == MostRecentContactCall(i, n)
                seen == IF k = 0 THEN 0 ELSE tick_log[k] \div 1000
            IN IF contact_log[n][i] = 1
                 THEN last_tick_[i] = now /\ cycles_since_last_contact_[i] = 0
                 ELSE /\ last_tick_[i] = seen
                      /\ cycles_since_last_contact_[i] = now - seen

C8_Witness ==
    /\ Len(tick_log) >= 3
    /\ \E i \in LegIdx : /\ contact_log[Len(tick_log)][i] # 1
                         /\ MostRecentContactCall(i, Len(tick_log)) = 1
                         /\ cycles_since_last_contact_[i] < 0
    /\ \E j \in LegIdx : /\ contact_log[Len(tick_log)][j] = 1
                         /\ last_tick_[j] > 0

\* C9: when the policy output has fewer than 12 elements, no joint command is
\* constructed and lastAction is left unchanged.
C9_ShortOutputAborts ==
    [][(LoggedStep /\ Len(policy_out') < NumJoints) =>
         (cmd' = cmd /\ last_action_' = last_action_)]_vars

\* number of consecutive ticks, ending at tick n, in which leg i had no contact
RECURSIVE NoContactRun(_, _)
NoContactRun(i, n) ==
    IF n = 0 THEN 0
    ELSE IF contact_log[n][i] = 1 THEN 0
    ELSE 1 + NoContactRun(i, n - 1)

\* C10: in every emitted feature vector, for each leg slot the cycles value is 0
\* exactly when the contact flag of the same vector is 1, it is >= 1 when the
\* flag is 0, and it equals the number of consecutive no-contact ticks so far.
C10_CyclesMatchContact ==
    Emitted =>
       \A i \in 1 .. NumLegs :
          /\ ContactSeg(tensor)[i] \in {0, 1}
          /\ (CyclesSeg(tensor)[i] = 0 <=> ContactSeg(tensor)[i] = 1)
          /\ (ContactSeg(tensor)[i] = 0 => CyclesSeg(tensor)[i] >= 1)
          /\ CyclesSeg(tensor)[i] = NoContactRun(i - 1, NumTicks)

C10_Witness ==
    /\ Emitted
    /\ \E i \in 1 .. NumLegs : ContactSeg(tensor)[i] = 0 /\ CyclesSeg(tensor)[i] >= 2
    /\ \E j \in 1 .. NumLegs :
          /\ ContactSeg(tensor)[j] = 1 /\ CyclesSeg(tensor)[j] = 0
          /\ NumTicks >= 2 /\ contact_log[NumTicks - 1][j - 1] = 0

====
